---- MODULE Spec2Model ----
(***************************************************************************)
(* State machine of the AIOracleAdapter contract                           *)
(* (src/chainlink/contracts/Adapter.sol): request creation, response       *)
(* admission, quorum detection, finalization with push payments, stake     *)
(* bookkeeping and the owner-only administrative functions.                *)
(*                                                                         *)
(* Every external function is one action.  A call that reverts leaves the  *)
(* contract storage and the balances untouched (EVM revert) and is         *)
(* recorded in `last` with the revert reason; a call that succeeds is      *)
(* recorded with err = "ok".  The ledger executes one call at a time:      *)
(* Settle closes the recorded call before the next one starts.             *)
(* Amounts are in ether, times in seconds.                                 *)
(***************************************************************************)
EXTENDS Integers, Sequences, FiniteSets, TLC

\* ------------------------------------------------------------ constants
MIN_STAKE == 1
RESPONSE_WINDOW == 1800

\* ------------------------------------------------------------ bounds
DeployTime == 900
TimeStep == 900
MaxTicks == 1
MaxRequests == 2
MaxResponses == 3
MaxWithdrawals == 1

\* ------------------------------------------------------------ universes
Owner == "owner"
Nodes == {"n1", "n2", "n3"}
Requesters == {"u1"}
Stranger == "0xother"

ZeroHash == "0x0"
EmptyBytes == "0x"
ModelHashes == {"m1"}
Inputs == {"in1"}
Results == {"h1", "h2"}

Times == {DeployTime + k * TimeStep : k \in 0..MaxTicks}
Nonces == 0..(MaxRequests - 1)
Payments == {10}
PriceValues == {11}
ConsensusValues == {2, 3}
StakeValues == {MIN_STAKE}
Amounts == {MIN_STAKE}
Penalties == {MIN_STAKE, 2 * MIN_STAKE}

\* keccak256(abi.encodePacked(block.timestamp, msg.sender, requestNonce)):
\* collision-free, so the hash is the tuple of what it hashes.
RequestIdOf(timestamp, sender, nonce) == <<timestamp, sender, nonce>>

RequestIds == {RequestIdOf(t, u, k) : t \in Times, u \in Requesters, k \in Nonces}

\* keccak256(abi.encodePacked(requestId, resultHash))
MessageHash(requestId, resultHash) == <<requestId, resultHash>>

\* A signature is the signer together with the message that was signed;
\* recovering it against another message yields an unrelated address.
Sign(signer, messageHash) == [signer |-> signer, message |-> messageHash]

Recover(messageHash, signature) ==
    IF signature.message = messageHash THEN signature.signer ELSE Stranger

\* A proof blob names the statement it proves; the verifier contract
\* accepts it for exactly that statement.
ProofOf(modelHash, inputData, resultHash) ==
    [modelHash |-> modelHash, inputData |-> inputData, resultHash |-> resultHash]

verifyZKProof(modelHash, inputData, resultHash, zkProof) ==
    zkProof = ProofOf(modelHash, inputData, resultHash)

\* The empty bytes of a signature slot that was never written.
NoSignature == [signer |-> ZeroHash, message |-> << >>]

\* Storage default of an AIRequest slot that was never written.  The struct
\* declares no lastActivity; submitResponse reads request.lastActivity and no
\* function assigns it, so it is a field that keeps its zero default.
EmptyRequest ==
    [ modelHash      |-> ZeroHash,
      inputData      |-> EmptyBytes,
      minConsensus   |-> 0,
      reward         |-> 0,
      requester      |-> ZeroHash,
      nodeSignatures |-> [n \in Nodes |-> NoSignature],
      responders     |-> << >>,
      finalResult    |-> ZeroHash,
      isFulfilled    |-> FALSE,
      lastActivity   |-> 0 ]

\* Storage default of a NodeInfo slot.
EmptyNode ==
    [ stakeAmount |-> 0, reputation |-> 0, isAuthorized |-> FALSE, lastActivity |-> 0 ]

\* Observation of one request: whether submitRequest issued its id, how many
\* RequestFulfilled events were emitted for it and how much was paid out for it.
EmptyHist == [ created |-> FALSE, fulfilledEvents |-> 0, paidOut |-> 0 ]

VARIABLES
    now,            \* block.timestamp
    requests,       \* mapping(bytes32 => AIRequest)
    nodes,          \* mapping(address => NodeInfo)
    modelPrices,    \* mapping(bytes32 => uint256)
    requestNonce,   \* uint256
    balance,        \* address(this).balance
    hist,           \* per request observation (see EmptyHist)
    last            \* the most recent call: its arguments and its outcome

vars == <<now, requests, nodes, modelPrices, requestNonce, balance, hist, last>>

NoCall ==
    [ op |-> "none", caller |-> ZeroHash, id |-> <<>>, node |-> ZeroHash,
      amount |-> 0, minConsensus |-> 0, modelHash |-> ZeroHash, resultHash |-> ZeroHash,
      proofOk |-> FALSE, sigOk |-> FALSE, finalized |-> FALSE,
      paid |-> << >>, err |-> "ok" ]

Init ==
    /\ now = DeployTime
    /\ requests = [id \in RequestIds |-> EmptyRequest]
    /\ nodes = [n \in Nodes |-> EmptyNode]
    /\ modelPrices = [m \in ModelHashes |-> 0]
    /\ requestNonce = 0
    /\ balance = 0
    /\ hist = [id \in RequestIds |-> EmptyHist]
    /\ last = NoCall

RevertKeepsPayment(call, reason) ==
    /\ last' = [call EXCEPT !.err = reason]
    /\ balance' = balance + (IF call.op = "submitRequest" THEN call.amount ELSE 0)
    /\ UNCHANGED <<now, requests, nodes, modelPrices, requestNonce, hist>>

RevertKeepsFulfilled(call, reason) ==
    /\ last' = [call EXCEPT !.err = reason]
    /\ requests' = IF call.op = "submitResponse" /\ reason = "Transfer failed"
                   THEN [requests EXCEPT ![call.id].isFulfilled = TRUE]
                   ELSE requests
    /\ UNCHANGED <<now, nodes, modelPrices, requestNonce, balance, hist>>

\* A reverted call: nothing but the observation of the call changes.
Revert(call, reason) ==
    /\ last' = [call EXCEPT !.err = reason]
    /\ UNCHANGED <<now, requests, nodes, modelPrices, requestNonce, balance, hist>>

\* The ledger's clock.
Tick ==
    /\ last = NoCall
    /\ now + TimeStep \in Times
    /\ now' = now + TimeStep
    /\ last' = NoCall
    /\ UNCHANGED <<requests, nodes, modelPrices, requestNonce, balance, hist>>

\* ------------------------------------------------------------ helpers
RECURSIVE SumLen(_)
SumLen(ids) ==
    IF ids = {} THEN 0
    ELSE LET id == CHOOSE x \in ids : TRUE
         IN Len(requests[id].responders) + SumLen(ids \ {id})

\* Number of responses accepted so far, over all requests.
TotalResponses == SumLen(RequestIds)

RECURSIVE SumEscrow(_)
SumEscrow(ids) ==
    IF ids = {} THEN 0
    ELSE LET id == CHOOSE x \in ids : TRUE
         IN (IF hist[id].created THEN requests[id].reward ELSE 0)
            - hist[id].paidOut + SumEscrow(ids \ {id})

\* Ether that left the contract through withdrawStake: what was paid in,
\* less what finalizations paid out, less what is still held.
Withdrawn == SumEscrow(RequestIds) - balance

Call(op, sender) == [NoCall EXCEPT !.op = op, !.caller = sender]

\* ------------------------------------------------------------ modifiers
\* onlyAuthorizedNode without its second require.
onlyAuthorizedNodeNoStake(sender) ==
    IF ~nodes[sender].isAuthorized THEN "Unauthorized node" ELSE "ok"

\* modifier onlyAuthorizedNode: the revert reason, or "ok".
onlyAuthorizedNode(sender) ==
    IF ~nodes[sender].isAuthorized THEN "Unauthorized node"
    ELSE IF ~(nodes[sender].stakeAmount >= MIN_STAKE) THEN "Insufficient stake"
    ELSE "ok"

onlyOwnerAnyone(sender) == "ok"

\* Ownable.onlyOwner: the revert reason, or "ok".
onlyOwner(sender) ==
    IF sender # Owner THEN "Ownable: caller is not the owner" ELSE "ok"

\* ------------------------------------------------------------ submitRequest
\* submitRequest with the consensus floor off by one.
submitRequestCheckFloor2(modelHash, minConsensus, value) ==
    IF ~(value >= modelPrices[modelHash]) THEN "Insufficient payment"
    ELSE IF ~(minConsensus >= 2) THEN "Minimum 3 nodes required"
    ELSE "ok"

\* submitRequest without the price check.
submitRequestCheckFree(modelHash, minConsensus, value) ==
    IF ~(minConsensus >= 3) THEN "Minimum 3 nodes required"
    ELSE "ok"

\* The two require statements of submitRequest, in order.
submitRequestCheck(modelHash, minConsensus, value) ==
    IF ~(value >= modelPrices[modelHash]) THEN "Insufficient payment"
    ELSE IF ~(minConsensus >= 3) THEN "Minimum 3 nodes required"
    ELSE "ok"

\* The record written through `newRequest`: six fields are assigned, the
\* others keep what the slot holds.
newRequest(slot, modelHash, inputData, minConsensus, value, sender) ==
    [slot EXCEPT !.modelHash = modelHash,
                 !.inputData = inputData,
                 !.minConsensus = minConsensus,
                 !.reward = value,
                 !.requester = sender,
                 !.isFulfilled = FALSE]

submitRequest(sender, modelHash, inputData, minConsensus, value) ==
    LET call == [Call("submitRequest", sender) EXCEPT
                    !.minConsensus = minConsensus, !.amount = value,
                    !.modelHash = modelHash]
        check == submitRequestCheck(modelHash, minConsensus, value)
        requestId == RequestIdOf(now, sender, requestNonce)
    IN  /\ requestNonce < MaxRequests
        /\ IF check # "ok" THEN Revert(call, check)
           ELSE /\ requests' = [requests EXCEPT ![requestId] =
                        newRequest(@, modelHash, inputData, minConsensus, value, sender)]
                /\ requestNonce' = requestNonce + 1
                /\ balance' = balance + value
                /\ hist' = [hist EXCEPT ![requestId].created = TRUE]
                /\ last' = [call EXCEPT !.id = requestId]
                /\ UNCHANGED <<now, nodes, modelPrices>>

\* ------------------------------------------------------------ submitResponse
\* The window check with <= for <.
WindowOpenInclusive(request) == now <= request.lastActivity + RESPONSE_WINDOW

\* require(block.timestamp < request.lastActivity + RESPONSE_WINDOW)
WindowOpen(request) == now < request.lastActivity + RESPONSE_WINDOW

\* A response signed over another result than an earlier responder's is not
\* recorded.
RecordedIfAgreeing(request, sender, nodeSignature) ==
    IF \E i \in DOMAIN request.responders :
            request.nodeSignatures[request.responders[i]].message # nodeSignature.message
    THEN request
    ELSE [request EXCEPT !.nodeSignatures[sender] = nodeSignature,
                         !.responders = Append(@, sender)]

\* request.nodeSignatures[msg.sender] = nodeSignature; request.responders.push(msg.sender)
Recorded(request, sender, nodeSignature) ==
    [request EXCEPT !.nodeSignatures[sender] = nodeSignature,
                    !.responders = Append(@, sender)]

\* nodes[msg.sender].reputation += 10; nodes[msg.sender].lastActivity = block.timestamp
Credited(node) ==
    [node EXCEPT !.reputation = @ + 10, !.lastActivity = now]

\* The quorum test with > for >=.
QuorumReachedStrict(request) == Len(request.responders) > request.minConsensus

\* The quorum test one responder early.
QuorumReachedEarly(request) == Len(request.responders) + 1 >= request.minConsensus

\* if (request.responders.length >= request.minConsensus)
QuorumReached(request) == Len(request.responders) >= request.minConsensus

\* The share rounded up instead of down.
paymentPerNodeRoundedUp(request) ==
    (request.reward + Len(request.responders) - 1) \div Len(request.responders)

\* uint256 paymentPerNode = request.reward / request.responders.length
paymentPerNode(request) == request.reward \div Len(request.responders)

\* The transfers of the distribution loop, in responders order.
Payouts(request) ==
    [i \in 1..Len(request.responders) |->
        <<request.responders[i], paymentPerNode(request)>>]

\* What the loop sends in total.
Distributed(request) == paymentPerNode(request) * Len(request.responders)

\* request.finalResult = resultHash; request.isFulfilled = true
Finalized(request, resultHash) ==
    [request EXCEPT !.finalResult = resultHash, !.isFulfilled = TRUE]

AlreadyFulfilledNever(request) == FALSE

\* require(!request.isFulfilled), negated.
AlreadyFulfilled(request) == request.isFulfilled

responseCheckProofOnly(proofOk, sigOk) ==
    IF ~proofOk THEN "Invalid ZK proof" ELSE "ok"

\* The requires on the proof and on the recovered signer: the revert reason,
\* or "ok".
responseCheck(proofOk, sigOk) ==
    IF ~proofOk THEN "Invalid ZK proof"
    ELSE IF ~sigOk THEN "Invalid signature"
    ELSE "ok"

submitResponse(sender, requestId, resultHash, zkProof, nodeSignature, payable) ==
    LET request == requests[requestId]
        proofOk == verifyZKProof(request.modelHash, request.inputData, resultHash, zkProof)
        sigOk == Recover(MessageHash(requestId, resultHash), nodeSignature) = sender
        call == [Call("submitResponse", sender) EXCEPT
                    !.id = requestId, !.resultHash = resultHash,
                    !.proofOk = proofOk, !.sigOk = sigOk]
        gate == onlyAuthorizedNode(sender)
        check == responseCheck(proofOk, sigOk)
        after == Recorded(request, sender, nodeSignature)
    IN  IF gate # "ok" THEN Revert(call, gate)
        ELSE IF AlreadyFulfilled(request) THEN Revert(call, "Request already fulfilled")
        ELSE IF ~WindowOpen(request) THEN Revert(call, "Response window closed")
        ELSE IF check # "ok" THEN Revert(call, check)
        ELSE IF QuorumReached(after)
        THEN \* finalizeRequest(requestId, resultHash)
             IF after.isFulfilled THEN Revert(call, "Already fulfilled")
             ELSE IF ~(payable /\ balance >= Distributed(after))
             THEN Revert(call, "Transfer failed")
             ELSE /\ TotalResponses < MaxResponses
                  /\ requests' = [requests EXCEPT ![requestId] = Finalized(after, resultHash)]
                  /\ nodes' = [nodes EXCEPT ![sender] = Credited(@)]
                  /\ balance' = balance - Distributed(after)
                  /\ hist' = [hist EXCEPT ![requestId].fulfilledEvents = @ + 1,
                                          ![requestId].paidOut = @ + Distributed(after)]
                  /\ last' = [call EXCEPT !.finalized = TRUE, !.paid = Payouts(after)]
                  /\ UNCHANGED <<now, modelPrices, requestNonce>>
        ELSE /\ TotalResponses < MaxResponses
             /\ requests' = [requests EXCEPT ![requestId] = after]
             /\ nodes' = [nodes EXCEPT ![sender] = Credited(@)]
             /\ last' = call
             /\ UNCHANGED <<now, modelPrices, requestNonce, balance, hist>>

\* ------------------------------------------------------------ administration
updateModelPrice(sender, modelHash, price) ==
    LET call == [Call("updateModelPrice", sender) EXCEPT !.amount = price]
        gate == onlyOwner(sender)
    IN  IF gate # "ok" THEN Revert(call, gate)
        ELSE /\ modelPrices' = [modelPrices EXCEPT ![modelHash] = price]
             /\ last' = call
             /\ UNCHANGED <<now, requests, nodes, requestNonce, balance, hist>>

authorizeNode(sender, node, minStake) ==
    LET call == [Call("authorizeNode", sender) EXCEPT !.node = node, !.amount = minStake]
        gate == onlyOwner(sender)
    IN  IF gate # "ok" THEN Revert(call, gate)
        ELSE /\ nodes' = [nodes EXCEPT ![node].isAuthorized = TRUE,
                                       ![node].stakeAmount = minStake]
             /\ last' = call
             /\ UNCHANGED <<now, requests, modelPrices, requestNonce, balance, hist>>

slashCheckNoRequire(node, penalty) ==
    IF nodes[node].reputation < 20 THEN "Panic(0x11)"
    ELSE IF nodes[node].stakeAmount < penalty THEN "Panic(0x11)"
    ELSE "ok"

slashCheckUncheckedStake(node, penalty) ==
    IF ~(nodes[node].reputation > 0) THEN "No reputation to slash"
    ELSE IF nodes[node].reputation < 20 THEN "Panic(0x11)"
    ELSE "ok"

\* The require and the two checked subtractions of slashMaliciousNode.
slashCheck(node, penalty) ==
    IF ~(nodes[node].reputation > 0) THEN "No reputation to slash"
    ELSE IF nodes[node].reputation < 20 THEN "Panic(0x11)"
    ELSE IF nodes[node].stakeAmount < penalty THEN "Panic(0x11)"
    ELSE "ok"

slashMaliciousNode(sender, node, penalty) ==
    LET call == [Call("slashMaliciousNode", sender) EXCEPT !.node = node, !.amount = penalty]
        gate == onlyOwner(sender)
        check == slashCheck(node, penalty)
    IN  IF gate # "ok" THEN Revert(call, gate)
        ELSE IF check # "ok" THEN Revert(call, check)
        ELSE /\ nodes' = [nodes EXCEPT ![node].reputation = @ - 20,
                                       ![node].stakeAmount = @ - penalty]
             /\ last' = call
             /\ UNCHANGED <<now, requests, modelPrices, requestNonce, balance, hist>>

withdrawStake(sender, amount, payable) ==
    LET call == [Call("withdrawStake", sender) EXCEPT !.node = sender, !.amount = amount]
    IN  IF ~(nodes[sender].stakeAmount >= amount) THEN Revert(call, "Insufficient stake")
        ELSE IF ~(payable /\ balance >= amount) THEN Revert(call, "Transfer failed")
        ELSE /\ Withdrawn < MaxWithdrawals * MIN_STAKE
             /\ nodes' = [nodes EXCEPT ![sender].stakeAmount = @ - amount]
             /\ balance' = balance - amount
             /\ last' = [call EXCEPT !.paid = << <<sender, amount>> >>]
             /\ UNCHANGED <<now, requests, modelPrices, requestNonce, hist>>

\* ------------------------------------------------------------ specification
\* The inputs the calls are drawn from.
AdminCallers == {Owner, "n1"}
Offers(sender) == IF sender = "n3" THEN Results ELSE {"h1"}
\* A response carries a proof of the result it reports or of another one, and
\* a signature of the caller or of somebody else.
Attempts(sender, resultHash) ==
    {<<resultHash, sender>>} \cup
    {<<other, sender>> : other \in Results \ {resultHash}} \cup
    {<<resultHash, Owner>>}
Targets == {id \in RequestIds : hist[id].created \/ id = RequestIdOf(now, "u1", requestNonce)}
Withdrawers == {"n1"}
Slashed == {"n1"}

SubmitRequest ==
    /\ last = NoCall
    /\ \E sender \in Requesters, modelHash \in ModelHashes, inputData \in Inputs,
          minConsensus \in ConsensusValues, value \in Payments :
            submitRequest(sender, modelHash, inputData, minConsensus, value)

SubmitResponse ==
    /\ last = NoCall
    /\ \E sender \in Nodes, requestId \in Targets, payable \in BOOLEAN :
         \E resultHash \in Offers(sender) :
          \E attempt \in Attempts(sender, resultHash) :
            submitResponse(sender, requestId, resultHash,
                           ProofOf(requests[requestId].modelHash,
                                   requests[requestId].inputData, attempt[1]),
                           Sign(attempt[2], MessageHash(requestId, resultHash)),
                           payable)

UpdateModelPrice ==
    /\ last = NoCall
    /\ \E sender \in AdminCallers, modelHash \in ModelHashes, price \in PriceValues :
            updateModelPrice(sender, modelHash, price)

AuthorizeNode ==
    /\ last = NoCall
    /\ \E sender \in AdminCallers, node \in Nodes, minStake \in StakeValues :
            authorizeNode(sender, node, minStake)

SlashMaliciousNode ==
    /\ last = NoCall
    /\ \E sender \in AdminCallers, node \in Slashed, penalty \in Penalties :
            slashMaliciousNode(sender, node, penalty)

WithdrawStake ==
    /\ last = NoCall
    /\ \E sender \in Withdrawers, amount \in Amounts, payable \in BOOLEAN :
            withdrawStake(sender, amount, payable)

\* The call has returned: the ledger is ready for the next one.
Settle ==
    /\ last # NoCall
    /\ last' = NoCall
    /\ UNCHANGED <<now, requests, nodes, modelPrices, requestNonce, balance, hist>>

Next ==
    \/ Tick
    \/ SubmitRequest
    \/ SubmitResponse
    \/ UpdateModelPrice
    \/ AuthorizeNode
    \/ SlashMaliciousNode
    \/ WithdrawStake
    \/ Settle

Spec == Init /\ [][Next]_vars

\* ------------------------------------------------------------ properties
Range(seq) == {seq[i] : i \in DOMAIN seq}

RECURSIVE SumPaid(_)
SumPaid(paid) ==
    IF paid = << >> THEN 0 ELSE Head(paid)[2] + SumPaid(Tail(paid))

\* The timestamp a request id was derived from: the creation time.
CreatedAt(requestId) == requestId[1]

Eligible(n) == nodes[n].isAuthorized /\ nodes[n].stakeAmount >= MIN_STAKE

Distinct(seq) == \A i, j \in DOMAIN seq : i # j => seq[i] # seq[j]

NothingPersistedChanges ==
    UNCHANGED <<requests, nodes, modelPrices, requestNonce, balance, hist>>

\* C1: for every request the transition to fulfilled happens at most once and
\* is permanent: no step clears the fulfilled flag of a request that was
\* created, and no more than one RequestFulfilled event is ever emitted for
\* one requestId.
C1_FulfilledOnce ==
    [][\A id \in RequestIds :
         /\ (hist[id].created /\ requests[id].isFulfilled) => requests'[id].isFulfilled
         /\ hist'[id].fulfilledEvents <= 1]_vars

\* C2: the responders of a request never hold the same node twice.
C2_NoRepeatedResponder ==
    \A id \in RequestIds : Distinct(requests[id].responders)

\* C3: on a request with minConsensus = 3, a response with an accepted proof
\* and a valid signature, from an eligible node that is not yet among the
\* (distinct) responders, made less than RESPONSE_WINDOW after the request
\* was created, is accepted; the first two do not finalize, the third
\* finalizes and issues three payouts that sum to at most the reward.
C3_ThirdResponseFinalizes ==
    [][\A id \in RequestIds, n \in Nodes :
         ( /\ last'.op = "submitResponse" /\ last'.id = id /\ last'.caller = n
           /\ hist[id].created
           /\ requests[id].minConsensus = 3
           /\ ~requests[id].isFulfilled
           /\ Distinct(requests[id].responders)
           /\ Len(requests[id].responders) < 3
           /\ n \notin Range(requests[id].responders)
           /\ Eligible(n)
           /\ last'.proofOk /\ last'.sigOk
           /\ now < CreatedAt(id) + RESPONSE_WINDOW )
         => /\ last'.err = "ok"
            /\ Len(requests[id].responders) < 2 =>
                 ~requests'[id].isFulfilled /\ ~last'.finalized
            /\ Len(requests[id].responders) = 2 =>
                 /\ requests'[id].isFulfilled
                 /\ last'.finalized
                 /\ Len(last'.paid) = 3
                 /\ SumPaid(last'.paid) <= requests[id].reward]_vars

\* C4 as stated: in every reachable state every node among the responders of
\* a request is authorized and holds at least MIN_STAKE.
C4_RespondersStayEligible ==
    \A id \in RequestIds : \A n \in Range(requests[id].responders) : Eligible(n)

\* C4 amended: a node is appended to responders only by a call it makes while
\* authorized with at least MIN_STAKE, and every responder stays authorized;
\* its stake may fall below MIN_STAKE afterwards.
C4_AppendedWhileEligible ==
    [][\A id \in RequestIds :
         /\ \A n \in Range(requests'[id].responders) : nodes'[n].isAuthorized
         /\ requests'[id].responders # requests[id].responders =>
              \E n \in Nodes :
                 /\ requests'[id].responders = Append(requests[id].responders, n)
                 /\ last'.op = "submitResponse" /\ last'.caller = n
                 /\ nodes[n].isAuthorized
                 /\ nodes[n].stakeAmount >= MIN_STAKE]_vars

C4_Witness ==
    \E id \in RequestIds : \E n \in Range(requests[id].responders) :
        nodes[n].isAuthorized /\ nodes[n].stakeAmount < MIN_STAKE

\* C5: submitResponse by a caller that is not authorized or holds less than
\* MIN_STAKE at the time of the call reverts in the onlyAuthorizedNode gate
\* and changes neither a request nor a node account.
C5_IneligibleCallerRejected ==
    [][\A n \in Nodes :
         ( /\ last'.op = "submitResponse" /\ last'.caller = n
           /\ (~nodes[n].isAuthorized \/ nodes[n].stakeAmount < MIN_STAKE) )
         => /\ last'.err \in {"Unauthorized node", "Insufficient stake"}
            /\ NothingPersistedChanges]_vars

\* A node that responded, withdrew its stake and is turned away at the gate.
C5_Witness ==
    /\ last.op = "submitResponse"
    /\ last.err = "Insufficient stake"
    /\ last.proofOk /\ last.sigOk
    /\ nodes[last.caller].isAuthorized
    /\ nodes[last.caller].reputation > 0
    /\ hist[last.id].created /\ ~requests[last.id].isFulfilled

\* C6 as stated: submitRequest with minConsensus < 3 fails with the
\* consensus-threshold error.
C6_ThresholdErrorAlways ==
    (last.op = "submitRequest" /\ last.minConsensus < 3)
        => last.err = "Minimum 3 nodes required"

\* C6 amended: submitRequest with minConsensus < 3 always reverts and creates
\* no request, with the consensus-threshold error whenever the payment covers
\* the price and with the payment error otherwise; every request created by
\* submitRequest has minConsensus >= 3.
C6_BelowThresholdRejected ==
    [][/\ (last'.op = "submitRequest" /\ last'.minConsensus < 3)
            => /\ last'.err = IF last'.amount >= modelPrices[last'.modelHash]
                              THEN "Minimum 3 nodes required"
                              ELSE "Insufficient payment"
               /\ NothingPersistedChanges
       /\ \A id \in RequestIds :
            hist'[id].created => requests'[id].minConsensus >= 3]_vars

C6_Witness ==
    /\ last.op = "submitRequest" /\ last.minConsensus < 3
    /\ last.err = "Minimum 3 nodes required"
    /\ \E id \in RequestIds : hist[id].created /\ requests[id].minConsensus = 3

\* C7: when a request is finalized, every entry of responders is paid
\* reward div len(responders), in responders order, and the payouts sum to at
\* most the reward; over its whole life no request pays out more than its
\* reward.
C7_PayoutsWithinReward ==
    /\ last.finalized =>
         LET request == requests[last.id]
             share == request.reward \div Len(request.responders)
         IN  /\ Len(last.paid) = Len(request.responders)
             /\ \A i \in DOMAIN last.paid :
                    last.paid[i] = <<request.responders[i], share>>
             /\ SumPaid(last.paid) <= request.reward
    /\ \A id \in RequestIds :
         requests[id].isFulfilled => hist[id].paidOut <= requests[id].reward

C7_Witness ==
    /\ last.finalized
    /\ hist[last.id].created
    /\ requests[last.id].reward = 10
    /\ Len(last.paid) = 3
    /\ SumPaid(last.paid) = 9

\* C8: at finalization the whole reward is disposed of: the payouts together
\* with the disposition of the remainder equal the reward.
C8_RemainderAccounted ==
    \A id \in RequestIds :
        (hist[id].created /\ requests[id].isFulfilled)
            => hist[id].paidOut = requests[id].reward

\* C9: a submitResponse made at or after lastActivity + RESPONSE_WINDOW by an
\* eligible caller on an unfulfilled request reverts with the window-closed
\* error, whatever its proof and signature, and changes nothing.
C9_LateResponseRejected ==
    [][\A id \in RequestIds, n \in Nodes :
         ( /\ last'.op = "submitResponse" /\ last'.id = id /\ last'.caller = n
           /\ Eligible(n)
           /\ ~requests[id].isFulfilled
           /\ now >= requests[id].lastActivity + RESPONSE_WINDOW )
         => /\ last'.err = "Response window closed"
            /\ NothingPersistedChanges]_vars

C9_Witness ==
    /\ last.op = "submitResponse"
    /\ last.err = "Response window closed"
    /\ last.proofOk /\ last.sigOk
    /\ Eligible(last.caller)
    /\ hist[last.id].created /\ ~requests[last.id].isFulfilled
    /\ now >= requests[last.id].lastActivity + RESPONSE_WINDOW

\* C10: the first response to a created request, otherwise valid and made less
\* than RESPONSE_WINDOW after the creation, is not turned away by the window
\* check.
C10_FirstResponseInsideWindow ==
    [][\A id \in RequestIds, n \in Nodes :
         ( /\ last'.op = "submitResponse" /\ last'.id = id /\ last'.caller = n
           /\ hist[id].created
           /\ ~requests[id].isFulfilled
           /\ requests[id].responders = << >>
           /\ Eligible(n)
           /\ last'.proofOk /\ last'.sigOk
           /\ now < CreatedAt(id) + RESPONSE_WINDOW )
         => last'.err # "Response window closed"]_vars

\* C11: every accepted response sets the request's lastActivity to the time of
\* that response, and an otherwise valid response passes the window check
\* exactly when it comes less than RESPONSE_WINDOW after that time.
C11_WindowRearmed ==
    [][\A id \in RequestIds, n \in Nodes :
         /\ ( /\ last'.op = "submitResponse" /\ last'.id = id /\ last'.err = "ok" )
            => requests'[id].lastActivity = now
         /\ ( /\ last'.op = "submitResponse" /\ last'.id = id /\ last'.caller = n
              /\ Eligible(n) /\ ~requests[id].isFulfilled
              /\ last'.proofOk /\ last'.sigOk )
            => ( last'.err # "Response window closed"
                 <=> now < requests[id].lastActivity + RESPONSE_WINDOW )]_vars

\* C12: a call that fails, whatever the function and whatever the error,
\* leaves every request, every node, the prices, the nonce and the balance as
\* they were before the call.
C12_FailedCallChangesNothing ==
    [][last'.err # "ok" => NothingPersistedChanges]_vars

C12_Witness ==
    /\ last.op = "withdrawStake"
    /\ last.err = "Transfer failed"
    /\ nodes[last.caller].stakeAmount >= last.amount
    /\ balance >= last.amount

\* C13: a request marked fulfilled has had reward / responders paid to every
\* one of its responders, and a response whose finalization fails on a transfer
\* leaves the request unfulfilled, the responders and the caller's reputation
\* as they were.
C13_FailedPayoutNotFulfilled ==
    [][\A id \in RequestIds :
         /\ requests'[id].isFulfilled
            => /\ Len(requests'[id].responders) > 0
               /\ hist'[id].paidOut =
                    (requests'[id].reward \div Len(requests'[id].responders))
                        * Len(requests'[id].responders)
         /\ ( /\ last'.op = "submitResponse" /\ last'.id = id
              /\ last'.err = "Transfer failed" )
            => /\ ~requests'[id].isFulfilled
               /\ requests'[id] = requests[id]
               /\ nodes' = nodes
               /\ balance' = balance
               /\ hist' = hist
         /\ ( /\ last'.op = "submitResponse" /\ last'.id = id /\ last'.finalized )
            => /\ Len(last'.paid) = Len(requests'[id].responders)
               /\ \A i \in DOMAIN last'.paid :
                     last'.paid[i] = << requests'[id].responders[i],
                                        requests'[id].reward
                                            \div Len(requests'[id].responders) >>]_vars

C13_Witness ==
    /\ last.op = "submitResponse"
    /\ last.err = "Transfer failed"
    /\ hist[last.id].created
    /\ requests[last.id].reward > 0
    /\ Len(requests[last.id].responders) + 1 >= requests[last.id].minConsensus
    /\ ~requests[last.id].isFulfilled

\* C14: updateModelPrice, authorizeNode and slashMaliciousNode called by
\* anybody but the owner fail with the owner check's error and change nothing.
C14_OnlyAdministrator ==
    [][( /\ last'.op \in {"updateModelPrice", "authorizeNode", "slashMaliciousNode"}
         /\ last'.caller # Owner )
       => /\ last'.err = "Ownable: caller is not the owner"
          /\ NothingPersistedChanges]_vars

C14_Witness ==
    /\ last.op = "slashMaliciousNode"
    /\ last.caller # Owner
    /\ last.err = "Ownable: caller is not the owner"
    /\ nodes[last.node].reputation >= 20
    /\ nodes[last.node].stakeAmount >= last.amount

\* C15: slashMaliciousNode on a node whose reputation is 0 fails, with
\* "No reputation to slash" when the owner calls, and leaves the node's stake
\* and reputation as they were, whatever the penalty.
C15_NoReputationNoSlash ==
    [][\A n \in Nodes :
         ( /\ last'.op = "slashMaliciousNode" /\ last'.node = n
           /\ nodes[n].reputation <= 0 )
         => /\ last'.err # "ok"
            /\ last'.caller = Owner => last'.err = "No reputation to slash"
            /\ nodes'[n] = nodes[n]]_vars

C15_Witness ==
    /\ last.op = "slashMaliciousNode"
    /\ last.caller = Owner
    /\ last.err = "No reputation to slash"
    /\ nodes[last.node].reputation = 0
    /\ nodes[last.node].isAuthorized
    /\ nodes[last.node].stakeAmount >= last.amount

\* C16 as stated: no stake is ever negative, and slashMaliciousNode with a
\* penalty above the node's stake, past the owner and reputation checks, fails
\* with the "Insufficient stake" error and leaves the node as it was.
C16_SlashBeyondStakeError ==
    [][\A n \in Nodes :
         /\ nodes'[n].stakeAmount >= 0
         /\ ( /\ last'.op = "slashMaliciousNode" /\ last'.node = n
              /\ last'.caller = Owner
              /\ nodes[n].reputation >= 20
              /\ last'.amount > nodes[n].stakeAmount )
            => /\ last'.err = "Insufficient stake"
               /\ nodes'[n] = nodes[n]]_vars

\* C16: no stake is ever negative, and slashMaliciousNode with a penalty above
\* the node's stake always fails and leaves the node as it was; past the owner
\* and reputation checks the failure is the panic of the checked subtraction.
C16_SlashBeyondStakeFails ==
    [][\A n \in Nodes :
         /\ nodes'[n].stakeAmount >= 0
         /\ ( /\ last'.op = "slashMaliciousNode" /\ last'.node = n
              /\ last'.amount > nodes[n].stakeAmount )
            => /\ last'.err # "ok"
               /\ nodes'[n] = nodes[n]
               /\ ( last'.caller = Owner /\ nodes[n].reputation > 0 )
                  => last'.err = "Panic(0x11)"]_vars

C16_Witness ==
    /\ last.op = "slashMaliciousNode"
    /\ last.caller = Owner
    /\ last.err = "Panic(0x11)"
    /\ nodes[last.node].reputation >= 20
    /\ last.amount > nodes[last.node].stakeAmount

\* C17: slashMaliciousNode by the owner on a node with reputation > 0 and a
\* penalty within its stake succeeds, takes exactly 20 off the reputation and
\* exactly the penalty off the stake.
C17_SlashSucceeds ==
    [][\A n \in Nodes :
         ( /\ last'.op = "slashMaliciousNode" /\ last'.node = n
           /\ last'.caller = Owner
           /\ nodes[n].reputation > 0
           /\ last'.amount <= nodes[n].stakeAmount )
         => /\ last'.err = "ok"
            /\ nodes'[n].reputation = nodes[n].reputation - 20
            /\ nodes'[n].stakeAmount = nodes[n].stakeAmount - last'.amount]_vars

\* C18: withdrawStake of more than the caller's stake fails with
\* "Insufficient stake" and changes nothing; of an amount within the stake it
\* takes exactly the amount off the caller's stake, pays exactly the amount to
\* the caller and touches no other node.
C18_WithdrawWithinStake ==
    [][\A n \in Nodes :
         ( last'.op = "withdrawStake" /\ last'.caller = n )
         => IF last'.amount > nodes[n].stakeAmount
            THEN /\ last'.err = "Insufficient stake"
                 /\ NothingPersistedChanges
            ELSE /\ last'.err = "ok"
                 /\ nodes' = [nodes EXCEPT ![n].stakeAmount = @ - last'.amount]
                 /\ last'.paid = << <<n, last'.amount>> >>
                 /\ balance' = balance - last'.amount]_vars

\* C19: submitResponse on a request whose isFulfilled flag is set fails, with
\* the already-fulfilled error when the caller passes the node gate: no
\* responder is appended, no reputation granted and nothing paid.
C19_FulfilledRejectsResponses ==
    [][\A id \in RequestIds, n \in Nodes :
         ( /\ last'.op = "submitResponse" /\ last'.id = id /\ last'.caller = n
           /\ requests[id].isFulfilled )
         => /\ last'.err # "ok"
            /\ Eligible(n)
               => last'.err \in {"Request already fulfilled", "Already fulfilled"}
            /\ requests'[id].responders = requests[id].responders
            /\ nodes'[n].reputation = nodes[n].reputation
            /\ last'.paid = << >>
            /\ NothingPersistedChanges]_vars

C19_Witness ==
    /\ last.op = "submitResponse"
    /\ last.err = "Request already fulfilled"
    /\ last.proofOk /\ last.sigOk
    /\ hist[last.id].created
    /\ requests[last.id].isFulfilled
    /\ now < requests[last.id].lastActivity + RESPONSE_WINDOW

\* C20: a response is accepted only with a proof the verifier accepts and a
\* signature that recovers to the caller; a response that gets as far as these
\* checks fails with "Invalid ZK proof" on a bad proof and with
\* "Invalid signature" on a bad signature, and a response failing either is
\* not appended and earns no reputation.
C20_ProofAndSignatureRequired ==
    [][\A id \in RequestIds, n \in Nodes :
         ( last'.op = "submitResponse" /\ last'.id = id /\ last'.caller = n )
         => /\ last'.err = "ok" => ( last'.proofOk /\ last'.sigOk )
            /\ ( ~last'.proofOk \/ ~last'.sigOk )
               => /\ requests'[id].responders = requests[id].responders
                  /\ nodes'[n].reputation = nodes[n].reputation
            /\ ( /\ Eligible(n) /\ ~requests[id].isFulfilled
                 /\ now < requests[id].lastActivity + RESPONSE_WINDOW )
               => /\ ~last'.proofOk => last'.err = "Invalid ZK proof"
                  /\ ( last'.proofOk /\ ~last'.sigOk )
                     => last'.err = "Invalid signature"]_vars

C20_Witness ==
    /\ last.op = "submitResponse"
    /\ last.err = "Invalid signature"
    /\ last.proofOk /\ ~last.sigOk
    /\ hist[last.id].created
    /\ Eligible(last.caller)

\* C21: submitRequest paying less than the price of its model fails with
\* "Insufficient payment" and creates nothing; paying at least the price, with
\* an admissible minConsensus, it creates the request with the whole payment as
\* its reward.
C21_PaymentAgainstPrice ==
    [][\A u \in Requesters :
         ( last'.op = "submitRequest" /\ last'.caller = u )
         => IF last'.amount < modelPrices[last'.modelHash]
            THEN /\ last'.err = "Insufficient payment"
                 /\ NothingPersistedChanges
            ELSE last'.minConsensus >= 3
                 => /\ last'.err = "ok"
                    /\ last'.id = RequestIdOf(now, u, requestNonce)
                    /\ hist'[last'.id].created
                    /\ requests'[last'.id].reward = last'.amount
                    /\ balance' = balance + last'.amount]_vars

C21_Witness ==
    /\ last.op = "submitRequest"
    /\ last.err = "Insufficient payment"
    /\ last.minConsensus >= 3
    /\ last.amount < modelPrices[last.modelHash]
    /\ \E id \in RequestIds : hist[id].created /\ requests[id].reward = last.amount

\* C22: a successful submitRequest is issued an id no earlier submitRequest was
\* issued, writes a fresh record under it (unfulfilled, no responders, no
\* signatures, no result) and leaves every other request as it was.
C22_FreshRequest ==
    [][\A id \in RequestIds :
         ( last'.op = "submitRequest" /\ last'.err = "ok" /\ last'.id = id )
         => /\ ~hist[id].created
            /\ requests'[id].responders = << >>
            /\ requests'[id].nodeSignatures = [n \in Nodes |-> NoSignature]
            /\ requests'[id].finalResult = ZeroHash
            /\ ~requests'[id].isFulfilled
            /\ ~requests[id].isFulfilled
            /\ \A other \in RequestIds \ {id} : requests'[other] = requests[other]]_vars

C24_QuorumFinalizesAtOnce ==
    [][\A id \in RequestIds :
         /\ ( /\ hist'[id].created
              /\ Len(requests'[id].responders) >= requests'[id].minConsensus )
            => requests'[id].isFulfilled
         /\ ( /\ hist[id].created
              /\ Len(requests[id].responders) < requests[id].minConsensus
              /\ Len(requests'[id].responders) >= requests'[id].minConsensus )
            => /\ last'.op = "submitResponse" /\ last'.id = id
               /\ last'.finalized
               /\ requests'[id].isFulfilled
               /\ Len(last'.paid) = Len(requests'[id].responders)]_vars

C24_Witness ==
    /\ last.op = "submitResponse"
    /\ last.finalized
    /\ hist[last.id].created
    /\ requests[last.id].isFulfilled
    /\ Len(requests[last.id].responders) = requests[last.id].minConsensus
    /\ Len(last.paid) = requests[last.id].minConsensus

\* C25: the finalResult of a request is the result of the response that
\* finalized it, and a created request that is not fulfilled has no finalResult.
C25_FinalResultOfQuorumResponse ==
    [][\A id \in RequestIds :
         /\ ( last'.op = "submitResponse" /\ last'.id = id /\ last'.finalized )
            => requests'[id].finalResult = last'.resultHash
         /\ ( hist'[id].created /\ ~requests'[id].isFulfilled )
            => requests'[id].finalResult = ZeroHash]_vars

\* C26: an accepted response appends the caller to the responders, stores the
\* caller's signature and no other, adds exactly 10 to the caller's reputation,
\* sets the request's and the caller's lastActivity to the current time, and
\* changes no other node and no other request.
C26_AcceptedResponseEffect ==
    [][\A id \in RequestIds, n \in Nodes :
         ( /\ last'.op = "submitResponse" /\ last'.id = id /\ last'.caller = n
           /\ last'.err = "ok" )
         => /\ requests'[id].responders = Append(requests[id].responders, n)
            /\ \A m \in Nodes \ {n} :
                  requests'[id].nodeSignatures[m] = requests[id].nodeSignatures[m]
            /\ requests'[id].nodeSignatures[n] =
                  Sign(n, MessageHash(id, last'.resultHash))
            /\ nodes'[n].reputation = nodes[n].reputation + 10
            /\ nodes'[n].lastActivity = now
            /\ requests'[id].lastActivity = now
            /\ \A m \in Nodes \ {n} : nodes'[m] = nodes[m]
            /\ \A other \in RequestIds \ {id} : requests'[other] = requests[other]]_vars

\* C27: a created request stays created, its reward never changes, and a
\* created request that has been finalized is never changed again.
C27_FinalizedRequestImmutable ==
    [][\A id \in RequestIds :
         /\ hist[id].created
            => /\ hist'[id].created
               /\ requests'[id].reward = requests[id].reward
         /\ ( hist[id].created /\ hist[id].fulfilledEvents > 0 )
            => requests'[id] = requests[id]]_vars

\* C28: a created request that is fulfilled has exactly minConsensus
\* responders, and one that is not fulfilled has fewer.
C28_RespondersAgainstQuorum ==
    \A id \in RequestIds :
        hist[id].created
        => IF requests[id].isFulfilled
           THEN Len(requests[id].responders) = requests[id].minConsensus
           ELSE Len(requests[id].responders) < requests[id].minConsensus

C28_Witness ==
    \E id \in RequestIds :
        /\ hist[id].created
        /\ requests[id].isFulfilled
        /\ Len(requests[id].responders) = requests[id].minConsensus
        /\ \E other \in RequestIds \ {id} :
              /\ hist[other].created
              /\ ~requests[other].isFulfilled

RECURSIVE OpenRewards(_)
OpenRewards(ids) ==
    IF ids = {} THEN 0
    ELSE LET id == CHOOSE x \in ids : TRUE
         IN  (IF hist[id].created /\ ~requests[id].isFulfilled
              THEN requests[id].reward ELSE 0) + OpenRewards(ids \ {id})

\* C29: the ether the contract holds covers the rewards of all created requests
\* that are not fulfilled.
C29_EscrowCovered ==
    balance >= OpenRewards(RequestIds)

\* C30: a created request that is unfulfilled when its window has elapsed
\* stays so: its window stays elapsed, every response to it fails, and neither
\* its record nor what has been paid out for it changes.
C30_ExpiredStaysOpen ==
    [][\A id \in RequestIds :
         ( /\ hist[id].created /\ ~requests[id].isFulfilled
           /\ now >= requests[id].lastActivity + RESPONSE_WINDOW )
         => /\ now' >= requests'[id].lastActivity + RESPONSE_WINDOW
            /\ requests'[id] = requests[id]
            /\ hist'[id] = hist[id]
            /\ ( last'.op = "submitResponse" /\ last'.id = id )
               => /\ last'.err # "ok"
                  /\ ~last'.finalized /\ last'.paid = << >>]_vars

C30_Witness ==
    /\ last.op = "submitResponse"
    /\ last.err = "Response window closed"
    /\ last.proofOk /\ last.sigOk
    /\ Eligible(last.caller)
    /\ hist[last.id].created /\ ~requests[last.id].isFulfilled
    /\ requests[last.id].reward > 0
    /\ Len(requests[last.id].responders) = requests[last.id].minConsensus - 1
    /\ now >= requests[last.id].lastActivity + RESPONSE_WINDOW

====
